---- MODULE Spec2Model ----
(***************************************************************************)
(* The panel orchestration loop of the ADK Platform dashboard: the         *)
(* generate button's click handler, the rotation driver                    *)
(* handleAutonomousTransition with its two chained timers, the loop        *)
(* toggle, the nav buttons, the panels' own buttons, and the six panel     *)
(* tasks with one step per awaited promise.  The repository holds two      *)
(* variants of the page script: src/index.tsx dispatches six panels        *)
(* (variant "six"), src/unnamed/part_000 dispatches five (variant "five"). *)
(***************************************************************************)
EXTENDS Integers, Sequences, FiniteSets, TLC

VARIABLES
    variant,        \* which page script is loaded: "six" or "five"
    currentView,    \* let currentView
    isRunning,      \* let isRunning
    isInfiniteLoop, \* let isInfiniteLoop
    toggle,         \* infiniteLoopToggle.checked
    loopContext,    \* let loopContext = {feature, userCount, infrastructure}
    status,         \* type of the last setStatus call
    tasks,          \* async invocations suspended at an await, the click handler's first
    timers,         \* pending setTimeout callbacks of the rotation, in scheduling order
    last,           \* history: the event handled last and what it wrote to the page
    cancelled,      \* history: the toggle was unchecked while the loop was waiting
    cancelledInRun, \* history: the toggle was unchecked during a run and is still
                    \* unchecked, and the user has not clicked the generate button since
    sideBySide      \* the rotations of the two page scripts run side by side (PairSpec)

vars == <<variant, currentView, isRunning, isInfiniteLoop, toggle, loopContext,
          status, tasks, timers, last, cancelled, cancelledInRun, sideBySide>>

----------------------------------------------------------------------------
(* Bounds of the model *)

\* new runs start only while userCount has not passed this cap
MaxUserCount == 50
\* number of sampled values of Math.floor(Math.random() * 150), spread over 0..149
RandSteps == 2
\* the user starts a run only while fewer rotation timers than this are pending
MaxTimers == 2
\* the same bound where the panels' own buttons are clicked too
MaxPageTimers == 1
\* pending timers under which the user starts a run in the fair specification
MaxLiveTimers == 1
\* the largest userCount a single CRM run is tried with
MaxCRMUsers == 1000
\* tasks started from the panels' own buttons that may be in flight together
MaxDirect == 1
\* chunks a terminal stream delivers at most
MaxChunks == 2
\* number of "#deploy-steps li" elements of the page
DeploySteps == 1
\* runs each of the two pages run side by side starts at most
MaxPairRuns == 11

(* Program constants *)

TransitionDelay == 1500
ClickDelay == 500
GrowthBase == 50
GrowthSpan == 150

----------------------------------------------------------------------------
(* Panels and the transition table *)

Views == {"terminal", "crm", "ide", "deploy", "marketing", "nano"}

\* the ids the click handler's if/else chain has a branch for
Dispatched(v) == IF v = "six" THEN Views ELSE Views \ {"nano"}

InitialFeature == "Token Asset Standard (TAS-1)"
InitialInfrastructure == "Testnet Alpha"
UpgradedFeature == "Layer 2 Scaling (Optimism)"
UpgradedInfrastructure == "Mainnet + L2"

\* the 5-panel script carrying the 6-panel script's table
NextViewOneTable(v, view) ==
    CASE view = "ide" -> "deploy"
      [] view = "deploy" -> "marketing"
      [] view = "marketing" -> "nano"
      [] view = "nano" -> "crm"
      [] view = "crm" -> "ide"
      [] OTHER -> "ide"

\* the default case leading back to the terminal panel
NextViewDefaultTerminal(v, view) ==
    CASE view = "ide" -> "deploy"
      [] view = "deploy" -> "marketing"
      [] view = "marketing" -> IF v = "six" THEN "nano" ELSE "crm"
      [] view = "nano" /\ v = "six" -> "crm"
      [] view = "crm" -> "ide"
      [] OTHER -> "terminal"

\* switch(currentView) of handleAutonomousTransition: nextView
NextView(v, view) ==
    CASE view = "ide" -> "deploy"
      [] view = "deploy" -> "marketing"
      [] view = "marketing" -> IF v = "six" THEN "nano" ELSE "crm"
      [] view = "nano" /\ v = "six" -> "crm"
      [] view = "crm" -> "ide"
      [] OTHER -> "ide"

\* the cases of the switch that call setStatus(..., "success")
HasRule(v, view) ==
    \/ view \in {"ide", "deploy", "marketing", "crm"}
    \/ view = "nano" /\ v = "six"

\* the 5-panel script growing userCount when it leaves crm
GrowthViewFiveAtCrm(v) == IF v = "six" THEN "nano" ELSE "crm"

\* the case that adds to userCount
GrowthView(v) == IF v = "six" THEN "nano" ELSE "marketing"

\* the sampled values of Math.floor(Math.random() * 150)
RandSamples ==
    IF RandSteps <= 1 THEN {0}
    ELSE {(k * (GrowthSpan - 1)) \div (RandSteps - 1) : k \in 0..(RandSteps - 1)}

\* the growth drawn from 51..200 instead of 50..199
MutateWiderGrowth(v, view, ctx, r) ==
    IF view = GrowthView(v)
    THEN [ctx EXCEPT !.userCount = ctx.userCount + r + GrowthBase + 1]
    ELSE IF view = "crm"
    THEN [ctx EXCEPT !.feature = UpgradedFeature,
                     !.infrastructure = UpgradedInfrastructure]
    ELSE ctx

\* case 'crm' writing the feature only
MutateFeatureOnly(v, view, ctx, r) ==
    IF view = GrowthView(v)
    THEN [ctx EXCEPT !.userCount = ctx.userCount + r + GrowthBase]
    ELSE IF view = "crm"
    THEN [ctx EXCEPT !.feature = UpgradedFeature]
    ELSE ctx

\* switch(currentView) of handleAutonomousTransition: the writes to loopContext
Mutate(v, view, ctx, r) ==
    IF view = GrowthView(v)
    THEN [ctx EXCEPT !.userCount = ctx.userCount + r + GrowthBase]
    ELSE IF view = "crm"
    THEN [ctx EXCEPT !.feature = UpgradedFeature,
                     !.infrastructure = UpgradedInfrastructure]
    ELSE ctx

\* handleAutonomousTransition(): status, context and the 1500 ms timer
handleAutonomousTransition(v, view, ctx, st, tm, r) ==
    [ctx |-> Mutate(v, view, ctx, r),
     status |-> IF HasRule(v, view) THEN "success" ELSE st,
     timers |-> Append(tm, [delay |-> TransitionDelay, next |-> NextView(v, view)])]

----------------------------------------------------------------------------
(* The panel tasks: one step per awaited promise *)

\* nanoModelSelect.value, read when runNanoStudioAction starts
Models(panel) == IF panel = "nano" THEN {"flash", "pro"} ELSE {"na"}

\* Math.round in place of Math.floor
DerivedCountsRounded(n) == <<(n + 5) \div 10, (n + 10) \div 20, (n + 25) \div 50>>

\* Math.floor(userCount * 0.1), * 0.05, * 0.02: the double nearest to each factor
\* lies above it by less than 1e-17, so for every userCount below 2^31 the
\* product's floor is the integer quotient
DerivedCounts(n) == <<n \div 10, n \div 20, n \div 50>>

\* the synchronous prefix of a task, up to its first await; pc "done" when the
\* body has no await
Entry(panel, mdl, st) ==
    CASE panel = "terminal" -> [pc |-> "open", status |-> "busy"]
      [] panel = "crm" -> [pc |-> "call", status |-> "busy"]
      [] panel = "ide" -> [pc |-> "code", status |-> "busy"]
      [] panel = "deploy" ->
            IF DeploySteps = 0
            THEN [pc |-> "done", status |-> "success"]
            ELSE [pc |-> "step", status |-> "busy"]
      [] panel = "marketing" -> [pc |-> "seo", status |-> "busy"]
      [] panel = "nano" ->
            [pc |-> IF mdl = "pro" THEN "hasKey" ELSE "generate", status |-> "busy"]
      [] OTHER -> [pc |-> "done", status |-> st]

\* n counts the chunks received (terminal) or the steps done (deploy); failed
\* tells that a generation call of the task has failed; ctx0 is loopContext when
\* the task started; shown is what the task has written to its panel
NewTask(origin, panel, pc, ctx) ==
    [origin |-> origin, panel |-> panel, pc |-> pc, n |-> 0, failed |-> FALSE,
     ctx0 |-> ctx, shown |-> <<>>]

\* what the awaited promise of a suspended task can resolve to
Outcomes(t) ==
    CASE t.pc \in {"open", "call", "code", "audit", "seo", "image"} -> {"ok", "throw"}
      [] t.pc = "chunk" ->
            (IF t.n < MaxChunks THEN {"chunk"} ELSE {}) \cup {"end", "throw"}
      [] t.pc \in {"sleep1", "sleep2", "step", "openKey", "reselect"} -> {"ok"}
      [] t.pc = "hasKey" -> {"yes", "no"}
      [] t.pc = "generate" -> {"ok", "empty", "throw", "notfound"}
      [] OTHER -> {}

Go(t, pc, st) == [t |-> [t EXCEPT !.pc = pc], status |-> st, end |-> "none"]
Return(t, st) == [t |-> t, status |-> st, end |-> "return"]
Throw(t, st) == [t |-> [t EXCEPT !.failed = TRUE], status |-> st, end |-> "throw"]

\* runTerminalSimulation after its first await; chunk j of the stream is the
\* number j, md is <<1, ..., t.n>> and each chunk re-renders the whole of md
TerminalStep(t, o, st) ==
    IF o = "throw" THEN Throw(t, st)
    ELSE IF t.pc = "open" THEN Go(t, "chunk", st)
    ELSE IF o = "chunk"
    THEN Go([t EXCEPT !.n = t.n + 1, !.shown = [j \in 1..(t.n + 1) |-> j]], "chunk", st)
    ELSE Return(t, "idle")

\* runCRMSimulation after its await
CRMStep(t, o, st, ctx) ==
    IF o = "throw" THEN Throw(t, st)
    ELSE Return([t EXCEPT !.shown = DerivedCounts(ctx.userCount)], "idle")

\* runIDELoop after its first await
IDEStep(t, o, st) ==
    IF o = "throw" THEN Throw(t, st)
    ELSE CASE t.pc = "code" -> Go(t, "sleep1", st)
           [] t.pc = "sleep1" -> Go(t, "audit", "busy")
           [] t.pc = "audit" -> Go(t, "sleep2", st)
           [] OTHER -> Return(t, "idle")

\* runDeploySimulation: one 800 ms sleep per step
DeployStep(t, o, st) ==
    IF t.n + 1 >= DeploySteps
    THEN Return([t EXCEPT !.n = t.n + 1], "success")
    ELSE Go([t EXCEPT !.n = t.n + 1], "step", st)

\* runMarketingAgent: the SEO call throws out of the task, the image call is caught
MarketingStep(t, o, st) ==
    IF t.pc = "seo"
    THEN IF o = "throw" THEN Throw(t, st) ELSE Go(t, "image", st)
    ELSE IF o = "throw" THEN Return([t EXCEPT !.failed = TRUE], "idle")
    ELSE Return(t, "idle")

\* runNanoStudioAction: the key check, the call inside try/catch, the final status
NanoStep(t, o, st) ==
    CASE t.pc = "hasKey" -> IF o = "yes" THEN Go(t, "generate", st) ELSE Go(t, "openKey", st)
      [] t.pc = "openKey" -> Go(t, "generate", st)
      [] t.pc = "generate" ->
            IF o = "ok" THEN Return(t, "idle")
            ELSE IF o = "notfound" THEN Go([t EXCEPT !.failed = TRUE], "reselect", st)
            ELSE Return([t EXCEPT !.failed = TRUE], "idle")
      [] OTHER -> Return(t, "idle")

Step(t, o, st, ctx) ==
    CASE t.panel = "terminal" -> TerminalStep(t, o, st)
      [] t.panel = "crm" -> CRMStep(t, o, st, ctx)
      [] t.panel = "ide" -> IDEStep(t, o, st)
      [] t.panel = "deploy" -> DeployStep(t, o, st)
      [] t.panel = "marketing" -> MarketingStep(t, o, st)
      [] OTHER -> NanoStep(t, o, st)

----------------------------------------------------------------------------
(* The event handlers *)

RemoveAt(s, i) == SubSeq(s, 1, i - 1) \o SubSeq(s, i + 1, Len(s))

InFlight(origin) == {i \in 1..Len(tasks) : tasks[i].origin = origin}
DirectOrigins == {"btnGenMarketing", "nanoGenBtn", "nanoEditBtn"}
DirectInFlight == {i \in 1..Len(tasks) : tasks[i].origin \in DirectOrigins}

\* the loop is between two runs: a rotation timer is pending and no run is in flight
Waiting == timers # <<>> /\ InFlight("generate") = {}

\* the record of an event: ev is "click" (src tells who dispatched it, kind whether
\* the handler went past its guard), "end" (a task returned or threw) or "other"
NoEvent ==
    [ev |-> "none", kind |-> "", src |-> "", origin |-> "", panel |-> "",
     failed |-> FALSE, threw |-> FALSE, loop |-> FALSE, ctx0 |-> <<>>, shown |-> <<>>]
Other == [NoEvent EXCEPT !.ev = "other"]
Clicked(kind, src) == [NoEvent EXCEPT !.ev = "click", !.kind = kind, !.src = src]
Ended(t, threw, loop, kind, src) ==
    [ev |-> "end", kind |-> kind, src |-> src, origin |-> t.origin, panel |-> t.panel,
     failed |-> t.failed, threw |-> threw, loop |-> loop, ctx0 |-> t.ctx0,
     shown |-> t.shown]

\* the draws of Math.random() that the finally block can use
Rands(loop) ==
    IF loop /\ currentView = GrowthView(variant) THEN RandSamples ELSE {0}

\* the click handler without its guard
ClickNeverIgnored == FALSE

\* if (isRunning) return;
ClickIgnored == isRunning

\* the transition placed at the end of the try block: skipped when the task throws
FinallySkipsOnThrow(loop, threw, st, tm, r) ==
    IF loop /\ ~threw
    THEN handleAutonomousTransition(variant, currentView, loopContext, st, tm, r)
    ELSE [ctx |-> loopContext, status |-> IF threw THEN "error" ELSE st, timers |-> tm]

\* the transition called without the test of isInfiniteLoop
FinallyIgnoresMode(loop, threw, st, tm, r) ==
    handleAutonomousTransition(variant, currentView, loopContext,
                               IF threw THEN "error" ELSE st, tm, r)

\* catch and finally of the click handler, after the task body left status st
Finally(loop, threw, st, tm, r) ==
    IF loop
    THEN handleAutonomousTransition(variant, currentView, loopContext,
                                    IF threw THEN "error" ELSE st, tm, r)
    ELSE [ctx |-> loopContext, status |-> IF threw THEN "error" ELSE st, timers |-> tm]

\* the reset placed at the end of the try block: skipped when the task throws
RunningAfterTryOnly(threw) == threw

\* finally { isRunning = false; ... }
RunningAfter(threw) == FALSE

\* generateBtn's click listener up to its first await (to its end when the task
\* body has no await); chk is infiniteLoopToggle.checked and tm the pending timers
\* when the event is dispatched
GenerateClick(src, chk, tm) ==
    IF ClickIgnored
    THEN /\ last' = Clicked("ignored", src)
         /\ timers' = tm
         /\ UNCHANGED <<isRunning, isInfiniteLoop, currentView, loopContext, status,
                        tasks>>
    ELSE /\ isInfiniteLoop' = chk
         /\ UNCHANGED currentView
         /\ LET panel == IF currentView \in Dispatched(variant) THEN currentView ELSE "none"
            IN \E mdl \in Models(panel) :
                LET e == Entry(panel, mdl, status)
                    t == NewTask("generate", panel, e.pc, loopContext)
                IN IF e.pc = "done"
                   THEN \E r \in Rands(chk) :
                          LET f == Finally(chk, FALSE, e.status, tm, r)
                          IN /\ isRunning' = RunningAfter(FALSE)
                             /\ loopContext' = f.ctx
                             /\ status' = f.status
                             /\ timers' = f.timers
                             /\ last' = Ended(t, FALSE, chk, "started", src)
                             /\ UNCHANGED tasks
                   ELSE /\ isRunning' = TRUE
                        /\ tasks' = <<t>> \o tasks
                        /\ status' = e.status
                        /\ timers' = tm
                        /\ last' = Clicked("started", src)
                        /\ UNCHANGED loopContext

\* the user clicks the generate button
ManualClick ==
    /\ GenerateClick("manual", toggle, timers)
    /\ cancelledInRun' = FALSE
    /\ UNCHANGED <<variant, toggle, cancelled, sideBySide>>

\* infiniteLoopToggle's change listener
ToggleChange ==
    /\ toggle' = ~toggle
    /\ cancelled' = (toggle /\ Waiting)
    /\ cancelledInRun' = (toggle /\ InFlight("generate") # {})
    /\ UNCHANGED <<variant, sideBySide>>
    /\ IF toggle' /\ ~isRunning
       THEN GenerateClick("toggle", TRUE, timers)
       ELSE /\ last' = Other
            /\ UNCHANGED <<currentView, isRunning, isInfiniteLoop, loopContext, status,
                           tasks, timers>>

\* a nav button's click listener: switchView(view)
NavClick(view) ==
    /\ currentView' = view
    /\ last' = Other
    /\ UNCHANGED <<variant, isRunning, isInfiniteLoop, toggle, loopContext, status,
                   tasks, timers, cancelled, cancelledInRun, sideBySide>>

\* timers with the same delay fire in scheduling order, and a timer scheduled
\* later with a longer delay fires later
CanFire(i) == \A j \in 1..(i - 1) : timers[j].delay > timers[i].delay

\* the 1500 ms callback of handleAutonomousTransition
TransitionTimerFire(i) ==
    /\ timers[i].delay = TransitionDelay
    /\ CanFire(i)
    /\ IF toggle
       THEN /\ currentView' = timers[i].next
            /\ timers' = Append(RemoveAt(timers, i), [delay |-> ClickDelay, next |-> ""])
       ELSE /\ timers' = RemoveAt(timers, i)
            /\ UNCHANGED currentView
    /\ last' = Other
    /\ UNCHANGED <<variant, isRunning, isInfiniteLoop, toggle, loopContext, status,
                   tasks, cancelled, cancelledInRun, sideBySide>>

\* the 500 ms callback: generateBtn.click()
ClickTimerFire(i) ==
    /\ timers[i].delay = ClickDelay
    /\ CanFire(i)
    /\ GenerateClick("timer", toggle, RemoveAt(timers, i))
    /\ UNCHANGED <<variant, toggle, cancelled, cancelledInRun, sideBySide>>

\* btnGenMarketing, nanoGenBtn and nanoEditBtn call their task directly
DirectClick(origin) ==
    /\ origin \in DirectOrigins
    /\ origin = "btnGenMarketing" \/ variant = "six"
    /\ Cardinality(DirectInFlight) < MaxDirect
    /\ LET panel == IF origin = "btnGenMarketing" THEN "marketing" ELSE "nano"
       IN \E mdl \in Models(panel) :
            LET e == Entry(panel, mdl, status)
            IN /\ tasks' = Append(tasks, NewTask(origin, panel, e.pc, loopContext))
               /\ status' = e.status
    /\ last' = Other
    /\ UNCHANGED <<variant, currentView, isRunning, isInfiniteLoop, toggle, loopContext,
                   timers, cancelled, cancelledInRun, sideBySide>>

\* an awaited promise resolves and the task runs on to its next await
Await(i) ==
    /\ \E o \in Outcomes(tasks[i]) :
         LET s == Step(tasks[i], o, status, loopContext)
         IN /\ s.end = "none"
            /\ tasks' = [tasks EXCEPT ![i] = s.t]
            /\ status' = s.status
    /\ last' = Other
    /\ UNCHANGED <<variant, currentView, isRunning, isInfiniteLoop, toggle, loopContext,
                   timers, cancelled, cancelledInRun, sideBySide>>

\* the task awaited by the click handler returns or throws: catch and finally
HandlerEnd(i) ==
    /\ tasks[i].origin = "generate"
    /\ \E o \in Outcomes(tasks[i]) :
         LET s == Step(tasks[i], o, status, loopContext)
         IN /\ s.end # "none"
            /\ \E r \in Rands(isInfiniteLoop) :
                 LET f == Finally(isInfiniteLoop, s.end = "throw", s.status, timers, r)
                 IN /\ isRunning' = RunningAfter(s.end = "throw")
                    /\ loopContext' = f.ctx
                    /\ status' = f.status
                    /\ timers' = f.timers
                    /\ last' = Ended(s.t, s.end = "throw", isInfiniteLoop, "", "")
    /\ tasks' = RemoveAt(tasks, i)
    /\ UNCHANGED <<variant, currentView, isInfiniteLoop, toggle, cancelled,
                   cancelledInRun, sideBySide>>

\* a task started from a panel's own button returns or rejects: nothing awaits it
DirectEnd(i) ==
    /\ tasks[i].origin \in DirectOrigins
    /\ \E o \in Outcomes(tasks[i]) :
         LET s == Step(tasks[i], o, status, loopContext)
         IN /\ s.end # "none"
            /\ status' = s.status
            /\ last' = Ended(s.t, s.end = "throw", FALSE, "", "")
    /\ tasks' = RemoveAt(tasks, i)
    /\ UNCHANGED <<variant, currentView, isRunning, isInfiniteLoop, toggle, loopContext,
                   timers, cancelled, cancelledInRun, sideBySide>>

----------------------------------------------------------------------------
(* The page after the script has run *)

\* no pair of pages is run side by side
NoPair == <<>>

Init ==
    /\ variant \in {"six", "five"}
    /\ currentView = "terminal"
    /\ isRunning = FALSE
    /\ isInfiniteLoop = FALSE
    /\ toggle = FALSE
    /\ loopContext = [feature |-> InitialFeature, userCount |-> 0,
                      infrastructure |-> InitialInfrastructure]
    /\ status = "none"
    /\ tasks = <<>>
    /\ timers = <<>>
    /\ last = NoEvent
    /\ cancelled = FALSE
    /\ cancelledInRun = FALSE
    /\ sideBySide = NoPair

\* a click handler may start a new run only within the bounds: userCount has not
\* passed MaxUserCount and, for the user's clicks, fewer than maxT timers are pending
WithinBounds(src, maxT) ==
    \/ isRunning
    \/ /\ loopContext.userCount <= MaxUserCount
       /\ src # "timer" => Len(timers) < maxT

\* every handler of the page
Next ==
    \/ WithinBounds("manual", MaxPageTimers) /\ ManualClick
    \/ (toggle \/ WithinBounds("toggle", MaxPageTimers)) /\ ToggleChange
    \/ \E view \in Views : NavClick(view)
    \/ \E i \in 1..Len(timers) : TransitionTimerFire(i)
    \/ \E i \in 1..Len(timers) : WithinBounds("timer", MaxPageTimers) /\ ClickTimerFire(i)
    \/ \E origin \in DirectOrigins : DirectClick(origin)
    \/ \E i \in 1..Len(tasks) : Await(i)
    \/ \E i \in 1..Len(tasks) : HandlerEnd(i)
    \/ \E i \in 1..Len(tasks) : DirectEnd(i)

Spec == Init /\ [][Next]_vars

\* the orchestration loop alone: the panels' own buttons are never clicked
LoopNext ==
    \/ WithinBounds("manual", MaxTimers) /\ ManualClick
    \/ (toggle \/ WithinBounds("toggle", MaxTimers)) /\ ToggleChange
    \/ \E view \in Views : NavClick(view)
    \/ \E i \in 1..Len(timers) : TransitionTimerFire(i)
    \/ \E i \in 1..Len(timers) : WithinBounds("timer", MaxTimers) /\ ClickTimerFire(i)
    \/ \E i \in 1..Len(tasks) : Await(i)
    \/ \E i \in 1..Len(tasks) : HandlerEnd(i)

LoopSpec == Init /\ [][LoopNext]_vars

\* the orchestration loop as checked under fairness
LiveNext ==
    \/ WithinBounds("manual", MaxLiveTimers) /\ ManualClick
    \/ (toggle \/ WithinBounds("toggle", MaxLiveTimers)) /\ ToggleChange
    \/ \E view \in Views : NavClick(view)
    \/ \E i \in 1..Len(timers) : TransitionTimerFire(i)
    \/ \E i \in 1..Len(timers) : WithinBounds("timer", MaxLiveTimers) /\ ClickTimerFire(i)
    \/ \E i \in 1..Len(tasks) : Await(i)
    \/ \E i \in 1..Len(tasks) : HandlerEnd(i)

\* every awaited promise of the click handler's task settles: the generation
\* calls return or throw, the sleeps end, the stream ends
LoopLive ==
    /\ Init /\ [][LiveNext]_vars
    /\ WF_vars(\E i \in 1..Len(tasks) : Await(i))
    /\ WF_vars(\E i \in 1..Len(tasks) : HandlerEnd(i))

\* single manual runs of the CRM panel: the loop has been switched off on the CRM
\* view after any number of rotations (userCount is 0 or a sum of growths of
\* at least 50 each)
CRMInit ==
    /\ variant \in {"six", "five"}
    /\ currentView = "crm"
    /\ isRunning = FALSE
    /\ isInfiniteLoop \in BOOLEAN
    /\ toggle = FALSE
    /\ \E n \in {0} \cup (GrowthBase..MaxCRMUsers) :
         loopContext \in {[feature |-> InitialFeature, userCount |-> n,
                           infrastructure |-> InitialInfrastructure],
                          [feature |-> UpgradedFeature, userCount |-> n,
                           infrastructure |-> UpgradedInfrastructure]}
    /\ status = "idle"
    /\ tasks = <<>>
    /\ timers = <<>>
    /\ last = Other
    /\ cancelled = FALSE
    /\ cancelledInRun = FALSE
    /\ sideBySide = NoPair

CRMNext ==
    \/ ManualClick
    \/ \E i \in 1..Len(tasks) : HandlerEnd(i)

CRMSpec == CRMInit /\ [][CRMNext]_vars

\* the unattended rotation: the user selects a panel, checks the loop toggle and
\* gives no further input
RotNext ==
    \/ \E view \in Views : ~toggle /\ NavClick(view)
    \/ ~toggle /\ WithinBounds("toggle", MaxTimers) /\ ToggleChange
    \/ \E i \in 1..Len(timers) : TransitionTimerFire(i)
    \/ \E i \in 1..Len(timers) : WithinBounds("timer", MaxTimers) /\ ClickTimerFire(i)
    \/ \E i \in 1..Len(tasks) : Await(i)
    \/ \E i \in 1..Len(tasks) : HandlerEnd(i)

RotSpec == Init /\ [][RotNext]_vars

\* the two page scripts side by side, each in continuous mode from the IDE panel
\* with no user input: a page is its currentView, its loopContext, the number of
\* growths it has applied and the runs it has started (panel and loopContext at
\* the start); draws are the values of Math.floor(Math.random() * 150), the k-th
\* growth of either page using the k-th draw
StartedPanel(v, view) == IF view \in Dispatched(v) THEN view ELSE "none"

PairInit ==
    /\ variant = "six"
    /\ currentView = "ide"
    /\ isRunning = FALSE
    /\ isInfiniteLoop = FALSE
    /\ toggle = TRUE
    /\ loopContext = [feature |-> InitialFeature, userCount |-> 0,
                      infrastructure |-> InitialInfrastructure]
    /\ status = "none"
    /\ tasks = <<>>
    /\ timers = <<>>
    /\ last = NoEvent
    /\ cancelled = FALSE
    /\ cancelledInRun = FALSE
    /\ sideBySide =
         LET page(v) == [view |-> currentView, ctx |-> loopContext, grown |-> 0,
                         runs |-> <<[panel |-> StartedPanel(v, currentView),
                                     ctx |-> loopContext]>>]
         IN [six |-> page("six"), five |-> page("five"), draws |-> <<>>]

\* one round of page v: its run ends and the finally block calls
\* handleAutonomousTransition, the 1500 ms timer selects the next panel, the
\* 500 ms timer clicks the generate button and the next run starts
PageStep(v) ==
    LET pg == IF v = "six" THEN sideBySide.six ELSE sideBySide.five
        grows == pg.view = GrowthView(v)
        drawn == grows /\ pg.grown < Len(sideBySide.draws)
    IN \E r \in (IF drawn THEN {sideBySide.draws[pg.grown + 1]}
                 ELSE IF grows THEN RandSamples ELSE {0}) :
         LET h == handleAutonomousTransition(v, pg.view, pg.ctx, status, <<>>, r)
             next == h.timers[1].next
             after == [view |-> next, ctx |-> h.ctx,
                       grown |-> IF grows THEN pg.grown + 1 ELSE pg.grown,
                       runs |-> Append(pg.runs, [panel |-> StartedPanel(v, next),
                                                 ctx |-> h.ctx])]
             draws == IF grows /\ ~drawn THEN Append(sideBySide.draws, r)
                      ELSE sideBySide.draws
         IN sideBySide' =
              IF v = "six"
              THEN [six |-> after, five |-> sideBySide.five, draws |-> draws]
              ELSE [six |-> sideBySide.six, five |-> after, draws |-> draws]

PairNext ==
    /\ \E v \in {"six", "five"} :
         /\ Len((IF v = "six" THEN sideBySide.six ELSE sideBySide.five).runs) < MaxPairRuns
         /\ PageStep(v)
    /\ UNCHANGED <<variant, currentView, isRunning, isInfiniteLoop, toggle, loopContext,
                   status, tasks, timers, last, cancelled, cancelledInRun>>

PairSpec == PairInit /\ [][PairNext]_vars

----------------------------------------------------------------------------
(* The claims *)

\* the step dispatched a click event to the generate button
ClickStep == last'.ev = "click" \/ (last'.ev = "end" /\ last'.kind = "started")

\* the step ended a run of the click handler
RunEndStep == last'.ev = "end" /\ last'.origin = "generate"

\* C1: a click on the generate button that arrives while isRunning is true, from
\* the user or from a rotation timer, is ignored: isRunning, isInfiniteLoop,
\* currentView, loopContext and the status are unchanged and no task is started
C1_ReentrantClickIsNoOp ==
    [][(isRunning /\ ClickStep) =>
          /\ last'.kind = "ignored"
          /\ UNCHANGED <<isRunning, isInfiniteLoop, currentView, loopContext, status,
                         tasks>>]_vars

\* C1: a rotation timer's click has arrived during a run and was ignored
C1_Witness ==
    /\ isRunning
    /\ last.ev = "click" /\ last.kind = "ignored" /\ last.src = "timer"
    /\ Len(tasks) = 1

\* C2: in every reachable state at most one panel task is in flight
C2_AtMostOneTask == Len(tasks) <= 1

\* C3: once the toggle is unchecked while the loop is waiting, and not checked
\* again, no rotation timer starts a further run
C3_CancelStopsRotation ==
    ~(cancelled /\ last.kind = "started" /\ last.src = "timer")

\* C4: a continuous-mode run that ends, by a throw as by a return, on the panel
\* still selected leaves isRunning false and schedules the 1500 ms timer for that
\* panel's successor; that timer, fired with the toggle checked, selects the
\* successor and schedules the 500 ms timer; a run started by the rotation was
\* started by a 500 ms timer firing, which runs the selected panel's task
C4_FailureKeepsRotation ==
    [][/\ (RunEndStep /\ last'.loop /\ last'.panel = currentView) =>
             /\ ~isRunning'
             /\ timers' # <<>>
             /\ timers'[Len(timers')] =
                    [delay |-> 1500,
                     next |-> CASE last'.panel = "ide" -> "deploy"
                                [] last'.panel = "deploy" -> "marketing"
                                [] last'.panel = "marketing" ->
                                       IF variant = "six" THEN "nano" ELSE "crm"
                                [] last'.panel = "nano" -> "crm"
                                [] last'.panel = "crm" -> "ide"
                                [] OTHER -> "ide"]
       /\ \A i \in 1..Len(timers) :
             (timers[i].delay = 1500 /\ toggle /\ TransitionTimerFire(i)) =>
                 /\ currentView' = timers[i].next
                 /\ Len(timers') = Len(timers)
                 /\ timers'[Len(timers')].delay = 500
       /\ (ClickStep /\ last'.kind = "started" /\ last'.src = "timer") =>
             /\ \E i \in 1..Len(timers) : timers[i].delay = 500 /\ CanFire(i)
             /\ last'.ev = "click" =>
                    /\ tasks' # <<>>
                    /\ tasks'[1].origin = "generate"
                    /\ tasks'[1].panel = currentView]_vars

\* C4: the IDE task has thrown in continuous mode and the timer towards the
\* deploy panel is pending
C4_Witness ==
    /\ last.ev = "end" /\ last.origin = "generate" /\ last.loop /\ last.threw
    /\ last.panel = "ide"
    /\ ~isRunning
    /\ timers # <<>>
    /\ timers[Len(timers)] = [delay |-> 1500, next |-> "deploy"]

\* C5: when a generation call has failed during a run of the click handler, in
\* manual or in continuous mode, on the panel that is still selected, the handler
\* ends with the status error, isRunning false and loopContext as it was when the
\* task started
C5_FailureIsolation ==
    (last.ev = "end" /\ last.origin = "generate" /\ last.failed
        /\ last.panel = currentView) =>
        /\ status = "error"
        /\ ~isRunning
        /\ loopContext = last.ctx0

\* C6: when the last task has finished and none is in flight, the status is of
\* kind error exactly if a generation call of that task failed, a failure caught
\* inside the task included; stated for the runs outside continuous mode, after
\* which no transition writes the status
C6_StatusReflectsOutcome ==
    (tasks = <<>> /\ last.ev = "end" /\ last.panel # "none" /\ ~last.loop) =>
        (status = "error" <=> last.failed)

\* C7: every dispatched panel has a successor that is dispatched, and every
\* pending 1500 ms timer leads to a dispatched panel
C7_NoDeadEnds ==
    /\ \A p \in Dispatched(variant) : NextView(variant, p) \in Dispatched(variant)
    /\ \A i \in 1..Len(timers) :
          timers[i].delay = 1500 => timers[i].next \in Dispatched(variant)

\* C7: the 5-panel script has left marketing towards crm
C7_Witness ==
    /\ variant = "five"
    /\ last.ev = "end" /\ last.loop /\ last.panel = "marketing"
    /\ timers # <<>>
    /\ timers[Len(timers)].next = "crm"

\* C8: the transition leaving the growth panel (nano in the 6-panel script,
\* marketing in the 5-panel script) adds between 50 and 199 to userCount and
\* keeps feature and infrastructure; the one leaving crm sets feature and
\* infrastructure to the upgrade strings and keeps userCount; every other
\* transition, and every step that is no transition, keeps loopContext
C8_ContextMutation ==
    [][IF RunEndStep /\ last'.loop
       THEN CASE currentView = (IF variant = "six" THEN "nano" ELSE "marketing") ->
                   /\ loopContext'.userCount >= loopContext.userCount + 50
                   /\ loopContext'.userCount <= loopContext.userCount + 199
                   /\ loopContext'.feature = loopContext.feature
                   /\ loopContext'.infrastructure = loopContext.infrastructure
              [] currentView = "crm" ->
                   /\ loopContext'.feature = "Layer 2 Scaling (Optimism)"
                   /\ loopContext'.infrastructure = "Mainnet + L2"
                   /\ loopContext'.userCount = loopContext.userCount
              [] OTHER -> loopContext' = loopContext
       ELSE loopContext' = loopContext]_vars

\* C8: a second growth, by the largest amount, from a userCount that was not 0
C8_Witness ==
    /\ last.ev = "end" /\ last.loop
    /\ last.ctx0.userCount > 0
    /\ loopContext.userCount = last.ctx0.userCount + 199

\* C9: a CRM run whose call succeeded shows floor(n/10), floor(n/20) and
\* floor(n/50) for the userCount n it found when the call returned (100, 50 and
\* 20 for 1000), and a manual run leaves loopContext as it was
C9_DerivedCounts ==
    (last.ev = "end" /\ last.panel = "crm" /\ ~last.failed) =>
        LET n == last.ctx0.userCount
            c == last.shown
        IN /\ Len(c) = 3
           /\ 10 * c[1] <= n /\ n < 10 * (c[1] + 1)
           /\ 20 * c[2] <= n /\ n < 20 * (c[2] + 1)
           /\ 50 * c[3] <= n /\ n < 50 * (c[3] + 1)
           /\ n = 1000 => c = <<100, 50, 20>>
           /\ ~last.loop => loopContext = last.ctx0

\* C9: the manual run with userCount = 1000 has shown 100, 50 and 20
C9_Witness ==
    /\ last.ev = "end" /\ last.panel = "crm" /\ ~last.failed /\ ~last.loop
    /\ loopContext.userCount = 1000
    /\ last.shown = <<100, 50, 20>>

\* C10: isRunning is true exactly while a task started by the click handler is in
\* flight, it is false after the task's return and after its throw, and every
\* run leads to a state with isRunning false
C10_RunningLifecycle ==
    /\ [](isRunning <=> InFlight("generate") # {})
    /\ [][RunEndStep => ~isRunning']_vars
    /\ (isRunning ~> ~isRunning)

\* C10: a run has ended by a throw and isRunning is false again
C10_Witness ==
    /\ last.ev = "end" /\ last.origin = "generate" /\ last.threw
    /\ ~isRunning
    /\ tasks = <<>>

\* C11: a run triggered while currentView is an id the dispatcher has no task for
\* ends as a failure, with the status error
C11_UnknownPanelFails ==
    (last.ev = "end" /\ last.origin = "generate" /\ last.panel = "none") =>
        (last.threw /\ status = "error")

\* C12: a studio action that found hasSelectedApiKey() false (it is awaiting
\* openSelectKey) never goes on to dispatch the generation call
C12_KeyPrecondition ==
    [][\A i \in 1..Len(tasks) :
          (tasks[i].panel = "nano" /\ tasks[i].pc = "openKey") =>
              ~(Len(tasks') = Len(tasks) /\ tasks'[i].pc = "generate")]_vars

\* C13: the transition applied when a continuous-mode run ends is the one of the
\* panel whose task ran, also when currentView was changed during the run: the
\* timer leads to that panel's successor, userCount grows only after the growth
\* panel's task and the upgrade strings are written only after the CRM task
C13_TransitionOfPanelRun ==
    (last.ev = "end" /\ last.origin = "generate" /\ last.loop
        /\ last.panel \in Dispatched(variant)) =>
        /\ timers # <<>>
        /\ timers[Len(timers)].next = NextView(variant, last.panel)
        /\ loopContext.userCount # last.ctx0.userCount =>
               last.panel = GrowthView(variant)
        /\ (loopContext.feature # last.ctx0.feature
              \/ loopContext.infrastructure # last.ctx0.infrastructure) =>
               last.panel = "crm"

\* C14: a run that ends while the loop toggle is unchecked leads to no
\* transition: loopContext is not mutated and no timer is scheduled
C14_TransitionOnlyIfEnabledAtEnd ==
    [][(RunEndStep /\ ~toggle') =>
          /\ loopContext' = loopContext
          /\ Len(timers') <= Len(timers)]_vars

\* where the rotation stands: no run yet or stopped ("idle"), a task in flight
\* ("run"), the 1500 ms timer pending ("wait"), the 500 ms timer pending ("click")
Phase ==
    IF tasks # <<>> THEN "run"
    ELSE IF timers = <<>> THEN "idle"
    ELSE IF timers[1].delay = 1500 THEN "wait" ELSE "click"

\* C15: with the toggle checked and no other input, one task at a time runs and
\* it is the selected panel's; the rotation goes run, 1500 ms wait, 500 ms wait,
\* run; the selected panel changes only between the two waits and to the next
\* panel of the cycle ide, deploy, marketing, nano (6-panel script only), crm,
\* ide, with ide after terminal and never terminal again
C15_RotationOrder ==
    [][toggle' =>
         /\ Len(tasks') <= 1 /\ Len(timers') <= 1
         /\ tasks' # <<>> => (tasks'[1].panel = currentView' /\ timers' = <<>>)
         /\ Phase' # Phase =>
              \/ Phase = "idle" /\ Phase' = "run"
              \/ Phase = "idle" /\ Phase' = "wait" /\ currentView \notin Dispatched(variant)
              \/ Phase = "run" /\ Phase' = "wait"
              \/ Phase = "wait" /\ Phase' = "click"
              \/ Phase = "click" /\ Phase' = "run"
         /\ (Phase = "run" /\ Phase' = "run") =>
              (Len(tasks') = 1 /\ tasks'[1].panel = tasks[1].panel)
         /\ (toggle /\ Phase = "wait" /\ Phase' = "click") =>
              /\ currentView' # "terminal"
              /\ currentView' =
                    CASE currentView = "ide" -> "deploy"
                      [] currentView = "deploy" -> "marketing"
                      [] currentView = "marketing" ->
                             IF variant = "six" THEN "nano" ELSE "crm"
                      [] currentView = "nano" /\ variant = "six" -> "crm"
                      [] currentView = "crm" -> "ide"
                      [] OTHER -> "ide"
         /\ (toggle /\ ~(Phase = "wait" /\ Phase' = "click")) =>
              currentView' = currentView]_vars

\* C15: the rotation has gone once round the cycle, the growth and the upgrade
\* are applied, and the IDE task is in flight again
C15_Witness ==
    /\ toggle
    /\ tasks # <<>> /\ tasks[1].panel = "ide"
    /\ loopContext.userCount > 0
    /\ loopContext.feature = "Layer 2 Scaling (Optimism)"

\* C16: unchecking the toggle during a run leaves the task in flight; the run's
\* end leaves isRunning false; while the toggle stays unchecked and the user
\* does not click the generate button, a 1500 ms timer fires without changing
\* currentView and no timer starts a further run
C16_CancelDuringRun ==
    [][/\ (toggle /\ ~toggle' /\ isRunning) => (tasks' = tasks /\ isRunning')
       /\ (cancelledInRun /\ RunEndStep) => ~isRunning'
       /\ (cancelledInRun /\ cancelledInRun') =>
             /\ \A i \in 1..Len(timers) :
                    TransitionTimerFire(i) => currentView' = currentView
             /\ ~(ClickStep /\ last'.kind = "started")]_vars

\* C17: in every reachable state at most one rotation timer is pending, and a
\* timer is pending only while no task of the click handler is in flight
C17_OneTimerChain ==
    /\ Len(timers) <= 1
    /\ timers # <<>> => InFlight("generate") = {}

\* C18: while the loop toggle is checked the rotation is under way, a task of the
\* click handler in flight or a rotation timer pending: it never comes to rest
\* in a state from which only a click of the user starts the next run
C18_RotationNeverStalls ==
    toggle => (InFlight("generate") # {} \/ timers # <<>>)

\* C19: when the terminal stream has failed after k >= 1 chunks, the terminal
\* output is the rendering of chunks 1..k followed by an error marker (written 0
\* here, the chunks being numbered from 1), the status is error and isRunning is
\* false
C19_StreamInterrupted ==
    (last.ev = "end" /\ last.origin = "generate" /\ last.panel = "terminal"
        /\ last.threw /\ last.shown # <<>> /\ ~last.loop) =>
        /\ \E k \in 1..MaxChunks : last.shown = [j \in 1..k |-> j] \o <<0>>
        /\ status = "error"
        /\ ~isRunning

\* C20: a run started with the toggle unchecked has isInfiniteLoop false until
\* its end and leaves loopContext as it was at its start, whether the task
\* returned or threw; loopContext is written only at the end of a
\* continuous-mode run, by handleAutonomousTransition; userCount never
\* decreases and is never negative
C20_ContextFrame ==
    /\ [](loopContext.userCount >= 0)
    /\ [][/\ (ClickStep /\ last'.kind = "started" /\ ~toggle') => ~isInfiniteLoop'
          /\ (isRunning /\ isRunning') => isInfiniteLoop' = isInfiniteLoop
          /\ (RunEndStep /\ ~isInfiniteLoop') =>
                (loopContext' = loopContext /\ loopContext' = last'.ctx0)
          /\ loopContext' # loopContext => (RunEndStep /\ isInfiniteLoop')
          /\ loopContext'.userCount >= loopContext.userCount]_vars

\* C20: a run started with the toggle unchecked, after the rotation had grown
\* userCount, has thrown and loopContext is as the run found it
C20_Witness ==
    /\ last.ev = "end" /\ last.origin = "generate" /\ last.threw /\ ~last.loop
    /\ ~toggle
    /\ last.ctx0.userCount > 0
    /\ loopContext = last.ctx0

\* C21: in every reachable state feature and infrastructure hold both their
\* initial values or both their upgraded values; once upgraded they stay
\* upgraded; the transition leaving crm, applied to an upgraded context, leaves
\* loopContext unchanged
C21_UpgradeAtomicPermanent ==
    /\ [](\/ /\ loopContext.feature = "Token Asset Standard (TAS-1)"
             /\ loopContext.infrastructure = "Testnet Alpha"
          \/ /\ loopContext.feature = "Layer 2 Scaling (Optimism)"
             /\ loopContext.infrastructure = "Mainnet + L2")
    /\ [][loopContext.feature = "Layer 2 Scaling (Optimism)" =>
             /\ loopContext'.feature = "Layer 2 Scaling (Optimism)"
             /\ loopContext'.infrastructure = "Mainnet + L2"]_vars
    /\ [][(RunEndStep /\ last'.loop /\ currentView = "crm"
             /\ loopContext.feature = "Layer 2 Scaling (Optimism)") =>
             loopContext' = loopContext]_vars

\* C21: the transition leaving crm has been applied a second time, to a context
\* that was upgraded when the CRM task started
C21_Witness ==
    /\ last.ev = "end" /\ last.origin = "generate" /\ last.loop
    /\ last.panel = "crm" /\ currentView = "crm"
    /\ last.ctx0.feature = "Layer 2 Scaling (Optimism)"
    /\ loopContext = last.ctx0
    /\ timers # <<>>

\* the runs of a page without those of the nano panel
WithoutNano(runs) == SelectSeq(runs, LAMBDA x : x.panel # "nano")

\* the number of CRM runs among the first i runs
CrmRuns(runs, i) == Cardinality({j \in 1..i : runs[j].panel = "crm"})

\* userCount after the first k growths
RECURSIVE GrowthSum(_)
GrowthSum(k) == IF k = 0 THEN 0 ELSE GrowthSum(k - 1) + 50 + sideBySide.draws[k]

\* C22: run side by side from ide with the same draws, the 5-panel script starts
\* the panels the 6-panel script starts with the nano runs removed, and never
\* nano; the n-th of these runs finds the same loopContext in both; in both,
\* a run of ide, deploy or marketing finds userCount grown once per cycle
\* completed before, a run of crm finds it grown once more, and only the
\* transitions leaving marketing or nano grow it
C22_VariantsAgree ==
    LET a == WithoutNano(sideBySide.six.runs)
        b == sideBySide.five.runs
    IN /\ \A i \in 1..Len(b) : b[i].panel \in {"ide", "deploy", "marketing", "crm"}
       /\ \A i \in 1..Len(a) : i <= Len(b) => a[i] = b[i]
       /\ \A R \in {sideBySide.six.runs, sideBySide.five.runs} :
            /\ \A i \in 1..Len(R) :
                 R[i].panel # "nano" =>
                    /\ CrmRuns(R, i) <= Len(sideBySide.draws)
                    /\ R[i].ctx.userCount = GrowthSum(CrmRuns(R, i))
            /\ \A i \in 1..(Len(R) - 1) :
                 R[i].panel \notin {"marketing", "nano"} =>
                    R[i + 1].ctx.userCount = R[i].ctx.userCount

\* C22: both pages have started crm for the second time, after two different
\* draws, with the same upgraded loopContext
C22_Witness ==
    /\ Len(sideBySide.six.runs) >= 10 /\ Len(sideBySide.five.runs) >= 8
    /\ sideBySide.six.runs[10].panel = "crm"
    /\ sideBySide.five.runs[8].panel = "crm"
    /\ sideBySide.six.runs[10].ctx = sideBySide.five.runs[8].ctx
    /\ sideBySide.draws = <<149, 0>>
    /\ sideBySide.five.runs[8].ctx.userCount = 249
    /\ sideBySide.five.runs[8].ctx.feature = "Layer 2 Scaling (Optimism)"

====
